---- MODULE Spec2Model ----
(***************************************************************************)
(* State store of the omniledger service (omniledger/service/struct.go):   *)
(* collectionDB binds a bolt bucket to an authenticated collection, and    *)
(* sortTransactions orders a batch by salted hash.                         *)
(*                                                                         *)
(* Byte slices are sequences of naturals in 0..255; a nil slice is <<>>.   *)
(* The collection package is not part of the sources at hand; it is        *)
(* modelled from the specification of the Authenticated Collection with    *)
(* the strict-absence insertion policy that tryHash's undo relies on.      *)
(***************************************************************************)
EXTENDS Integers, Sequences, FiniteSets, TLC

\* ------------------------------------------------------------------ bounds
MaxBatch == 2
MaxCalls == 3
MaxSort == 3
DigestSize == 2
MaxProofLen == 3
NumValues == 2
NumKinds == 2

\* --------------------------------------------------------------- constants
Create == 1
Update == 2
Remove == 3
Actions == {Create, Update, Remove}

Nil == <<>>
NoErr == "nil"
ErrKeyCollision == "key collision"
ErrKeyNotFound == "key not found"
ErrNoMatch == "no match found"
ErrNothingStored == "nothing stored under that key"
ErrBucketWrite == "bucket write failed"
NilRoot == -1

KeyX == <<120>>
KindSuffix == <<107, 105, 110, 100>>
SigSuffix == <<115, 105, 103>>

\* ------------------------------------------------------------ byte slices
RECURSIVE BytesCompare(_, _)
BytesCompare(a, b) ==
    IF a = <<>> /\ b = <<>> THEN 0
    ELSE IF a = <<>> THEN -1
    ELSE IF b = <<>> THEN 1
    ELSE IF Head(a) < Head(b) THEN -1
    ELSE IF Head(a) > Head(b) THEN 1
    ELSE BytesCompare(Tail(a), Tail(b))

\* keykind := make([]byte, len(t.Key)+4); copy(keykind, t.Key);
\* keykind = append(keykind, []byte("kind")...)
KeyKind(key) ==
    [i \in 1..(Len(key) + 4) |-> IF i <= Len(key) THEN key[i] ELSE 0] \o KindSuffix

UserKeys == {KeyX, KeyKind(KeyX)}
Values == {<<48 + i>> : i \in 1..NumValues}
Kinds == {<<96 + i>> : i \in 1..NumKinds}

Transaction == [Action : Actions, Key : UserKeys, Kind : Kinds, Value : Values]
NoTx == [Action |-> 0, Key |-> Nil, Kind |-> Nil, Value |-> Nil]

AllKeys == UserKeys \cup {KeyKind(k) : k \in UserKeys}
AllBytes == Values \cup Kinds \cup {Nil}

\* --------------------------------------------- collection (spec-modelled)
CollectionNew == [k \in {} |-> <<Nil, Nil>>]

CollectionAdd(c, key, value, kind) ==
    IF key \in DOMAIN c
    THEN [coll |-> c, err |-> ErrKeyCollision]
    ELSE [coll |-> [k \in (DOMAIN c) \cup {key} |->
                       IF k = key THEN <<value, kind>> ELSE c[k]],
          err |-> NoErr]

CollectionRemove(c, key) ==
    IF key \in DOMAIN c
    THEN [coll |-> [k \in (DOMAIN c) \ {key} |-> c[k]], err |-> NoErr]
    ELSE [coll |-> c, err |-> ErrKeyNotFound]

\* Get(key).Record() followed by Values()
CollectionGetValues(c, key) ==
    IF key \in DOMAIN c
    THEN [values |-> c[key], err |-> NoErr]
    ELSE [values |-> <<>>, err |-> ErrNoMatch]

\* The root digest is a collision-free function of the set of entries:
\* every key has a rank, every (value, kind) pair a code, and the digest
\* is the number whose digit at the key's rank is the pair's code.
KeyRank(k) == Cardinality({j \in AllKeys : BytesCompare(j, k) = -1})
BytesRank(b) == Cardinality({j \in AllBytes : BytesCompare(j, b) = -1})
EntryCode(e) == 1 + BytesRank(e[1]) * Cardinality(AllBytes) + BytesRank(e[2])
EntryBase == 1 + Cardinality(AllBytes) * Cardinality(AllBytes)

RECURSIVE Pow(_, _)
Pow(b, n) == IF n = 0 THEN 1 ELSE b * Pow(b, n - 1)

RECURSIVE SumDigits(_, _)
SumDigits(c, ks) ==
    IF ks = {} THEN 0
    ELSE LET k == CHOOSE x \in ks : TRUE
         IN  EntryCode(c[k]) * Pow(EntryBase, KeyRank(k)) + SumDigits(c, ks \ {k})

CollectionGetRoot(c) == SumDigits(c, DOMAIN c)

\* --------------------------------------------------------------- state
VARIABLES
    bucket,       \* the bolt bucket c.bucketName of c.db: key -> value
    coll,         \* c.coll: key -> <<value, kind>>
    pc,           \* position of the goroutine running tryHash
    todo,         \* tryHash: how many transactions of ts the loop has yet to visit
    defers,       \* tryHash: keys of the deferred removals, last pushed last
    mr,           \* tryHash: named result mr
    rerr,         \* tryHash: named result rerr
    collAtCall,   \* the collection as it was when tryHash was called
    added,        \* keys tryHash added successfully during the current call
    stored,       \* what Store of the transactions visited so far would leave
    undone,       \* the removals the deferred closures have made, in order
    storeFailed,  \* some Store since the store was opened returned an error
    last,         \* the last completed call: operation, arguments, results
    calls         \* number of calls made so far

storeVars == <<bucket, coll, pc, todo, defers, mr, rerr, collAtCall,
               added, stored, undone, storeFailed, last, calls>>

VARIABLES
    sortIn,    \* the batch as passed to each of the two runs of sortTransactions
    sortTs,    \* the caller's slice of each run
    sortErr,   \* the error each run returned, Pending before it ran
    sortSalt   \* the salt each run sorted with, Nil when it computed none

sortVars == <<sortIn, sortTs, sortErr, sortSalt>>

VARIABLES
    verifiers, \* the verifiers of the service: kind -> verifier
    regLast    \* the last call of RegisterVerification and its result

regVars == <<verifiers, regLast>>

VARIABLES
    getProof,  \* what Record() and Values() hand to GetValueKind
    getRet     \* what GetValueKind returned for it, Pending before it ran

getVars == <<getProof, getRet>>

restVars == <<sortVars, regVars, getVars>>

NoCall == [op |-> "none", tx |-> NoTx, key |-> Nil, value |-> Nil,
           kind |-> Nil, root |-> NilRoot, err |-> NoErr, during |-> <<>>]

\* ----------------------------------------------------------- bolt bucket
BucketNew == [k \in {} |-> Nil]
BucketPut(b, key, value) ==
    [k \in (DOMAIN b) \cup {key} |-> IF k = key THEN value ELSE b[k]]
BucketGet(b, key) == IF key \in DOMAIN b THEN b[key] ELSE Nil

\* the cursor walks the keys in byte order
RECURSIVE CursorKeys(_)
CursorKeys(ks) ==
    IF ks = {} THEN <<>>
    ELSE LET k == CHOOSE x \in ks : \A y \in ks : BytesCompare(x, y) <= 0
         IN  <<k>> \o CursorKeys(ks \ {k})

\* ------------------------------------------------------------ collectionDB
\* loadAll: for every bucket key k, Add(k, v, bucket.Get(k ++ "sig"))
RECURSIVE LoadKeys(_, _, _)
LoadKeys(c, b, ks) ==
    IF ks = <<>> THEN c
    ELSE LET k == Head(ks)
             sig == BucketGet(b, k \o SigSuffix)
         IN  LoadKeys(CollectionAdd(c, k, b[k], sig).coll, b, Tail(ks))

loadAll(c, b) == LoadKeys(c, b, CursorKeys(DOMAIN b))

\* the collection Store leaves behind: the error of Add is dropped
StoreAdd(c, t) == CollectionAdd(c, t.Key, t.Value, t.Kind).coll

\* the two Puts of the bolt transaction
StorePut(b, t) == BucketPut(BucketPut(b, t.Key, t.Value), KeyKind(t.Key), t.Kind)

\* a stored value that is not a []byte
NotBytes == <<-1>>
IsBytes(v) == \A i \in DOMAIN v : v[i] \in 0..255

ErrValueType == "the value is not of type []byte"
ErrKindType == "the signature is not of type []byte"
ErrPanic == "panic: index out of range"

\* the body of GetValueKind, given the values and the error that
\* c.coll.Get(key).Record() and proof.Values() produce
GetValueKindOf(proof) ==
    LET hashes == proof.values
    IN  IF proof.err # NoErr
        THEN [value |-> Nil, kind |-> Nil, err |-> proof.err]
        ELSE IF Len(hashes) = 0
        THEN [value |-> Nil, kind |-> Nil, err |-> ErrNothingStored]
        ELSE IF ~IsBytes(hashes[1])
        THEN [value |-> Nil, kind |-> Nil, err |-> ErrValueType]
        ELSE IF Len(hashes) < 2
        THEN [value |-> hashes[1], kind |-> Nil, err |-> ErrPanic]
        ELSE IF ~IsBytes(hashes[2])
        THEN [value |-> hashes[1], kind |-> Nil, err |-> ErrKindType]
        ELSE [value |-> hashes[1], kind |-> hashes[2], err |-> NoErr]

GetValueKind(c, key) == GetValueKindOf(CollectionGetValues(c, key))

RootHash(c) == CollectionGetRoot(c)

tryHashVars == <<pc, todo, defers, mr, rerr, collAtCall, added, stored, undone>>

\* newCollectionDB on the same bolt file: a fresh collection filled by loadAll
NewCollectionDB ==
    /\ pc = "idle"
    /\ calls < MaxCalls
    /\ calls' = calls + 1
    /\ coll' = loadAll(CollectionNew, bucket)
    /\ storeFailed' = FALSE
    /\ last' = [NoCall EXCEPT !.op = "newCollectionDB",
                              !.root = RootHash(coll)]
    /\ UNCHANGED <<bucket, tryHashVars, restVars>>

\* what Store leaves and returns; ok: the bolt transaction commits
StoreResult(c, b, t, ok) ==
    [coll |-> StoreAdd(c, t),
     bucket |-> IF ok THEN StorePut(b, t) ELSE b,
     err |-> IF ok THEN NoErr ELSE ErrBucketWrite]

Store(t) ==
    /\ calls < MaxCalls
    /\ calls' = calls + 1
    /\ \E ok \in BOOLEAN : \E r \in {StoreResult(coll, bucket, t, ok)} :
          /\ coll' = r.coll
          /\ bucket' = r.bucket
          /\ storeFailed' = (storeFailed \/ r.err # NoErr)
          /\ last' = [NoCall EXCEPT !.op = "Store", !.tx = t, !.key = t.Key,
                                    !.err = r.err, !.during = defers]
    /\ UNCHANGED <<tryHashVars, restVars>>

CallGetValueKind(key) ==
    /\ calls < MaxCalls
    /\ calls' = calls + 1
    /\ LET r == GetValueKind(coll, key)
       IN  last' = [NoCall EXCEPT !.op = "GetValueKind", !.key = key,
                                  !.value = r.value, !.kind = r.kind,
                                  !.err = r.err, !.during = defers]
    /\ UNCHANGED <<bucket, coll, storeFailed, tryHashVars, restVars>>

CallRootHash ==
    /\ calls < MaxCalls
    /\ calls' = calls + 1
    /\ last' = [NoCall EXCEPT !.op = "RootHash", !.root = RootHash(coll),
                              !.during = defers]
    /\ UNCHANGED <<bucket, coll, storeFailed, tryHashVars, restVars>>

\* ---------------------------------------------------------------- tryHash
\* tryHash reads Key, Value and Kind of a transaction only
BatchTransaction == {t \in Transaction : t.Action = Create}

\* tryHash is called with a batch of n transactions; the transactions
\* themselves are drawn one by one, as the range loop reads them
TryHashCall(n) ==
    /\ pc = "idle"
    /\ calls < MaxCalls
    /\ calls' = calls + 1
    /\ pc' = "loop"
    /\ todo' = n
    /\ defers' = <<>>
    /\ added' = <<>>
    /\ mr' = NilRoot
    /\ rerr' = NoErr
    /\ collAtCall' = coll
    /\ stored' = coll
    /\ undone' = <<>>
    /\ UNCHANGED <<bucket, coll, storeFailed, last, restVars>>

\* what the loop body registers after a successful Add
TryHashDeferredNone(ds, key) == ds
TryHashDeferred(ds, key) == Append(ds, key)

\* the body of the deferred closure: c.coll.Remove(k)
TryHashUndoSkipped(c, key) == [coll |-> c, err |-> NoErr]
TryHashUndo(c, key) == CollectionRemove(c, key)

\* err := c.coll.Add(t.Key, t.Value, t.Kind)
TryHashApplySwapped(c, t) == CollectionAdd(c, t.Key, t.Kind, t.Value)
TryHashApply(c, t) == CollectionAdd(c, t.Key, t.Value, t.Kind)

\* one iteration of the range loop, on the transaction t of the batch
TryHashAdd(t) ==
    /\ pc = "loop"
    /\ todo > 0
    /\ LET r == TryHashApply(coll, t)
       IN  IF r.err # NoErr
           THEN /\ rerr' = r.err
                /\ stored' = CollectionNew
                /\ pc' = "return"
                /\ UNCHANGED <<coll, defers, added, todo>>
           ELSE /\ coll' = r.coll
                /\ defers' = TryHashDeferred(defers, t.Key)
                /\ added' = Append(added, t.Key)
                /\ todo' = todo - 1
                /\ stored' = StoreAdd(stored, t)
                /\ UNCHANGED <<rerr, pc>>
    /\ UNCHANGED <<bucket, mr, collAtCall, undone, storeFailed, last, calls,
                   restVars>>

\* mr = c.coll.GetRoot() after the loop
TryHashGetRoot ==
    /\ pc = "loop"
    /\ todo = 0
    /\ mr' = CollectionGetRoot(coll)
    /\ pc' = "return"
    /\ UNCHANGED <<bucket, coll, todo, defers, rerr, collAtCall, added, stored,
                   undone, storeFailed, last, calls, restVars>>

\* the deferred closures run last registered first
TryHashNextDeferredFirst(ds) == 1
TryHashNextDeferred(ds) == Len(ds)

ErrRemoveFailed == "remove failed"

\* one deferred closure runs; fail: c.coll.Remove returns an error although
\* the key is there
RunDeferred(fail) ==
    /\ pc = "return"
    /\ defers # <<>>
    /\ LET i == TryHashNextDeferred(defers)
           k == defers[i]
           r == IF fail THEN [coll |-> coll, err |-> ErrRemoveFailed]
                        ELSE TryHashUndo(coll, k)
       IN  /\ coll' = r.coll
           /\ IF r.err # NoErr
              THEN rerr' = r.err /\ mr' = NilRoot
              ELSE UNCHANGED <<rerr, mr>>
           /\ undone' = Append(undone, [key |-> k, err |-> r.err])
           /\ defers' = SubSeq(defers, 1, i - 1) \o SubSeq(defers, i + 1, Len(defers))
    /\ UNCHANGED <<bucket, pc, todo, collAtCall, added, stored, storeFailed, last,
                   calls, restVars>>

TryHashRunDeferred == RunDeferred(FALSE)

TryHashReturn ==
    /\ pc = "return"
    /\ defers = <<>>
    /\ pc' = "idle"
    /\ last' = [NoCall EXCEPT !.op = "tryHash", !.root = mr, !.err = rerr]
    /\ todo' = 0
    /\ added' = <<>>
    /\ mr' = NilRoot
    /\ rerr' = NoErr
    /\ collAtCall' = CollectionNew
    /\ stored' = CollectionNew
    /\ undone' = <<>>
    /\ UNCHANGED <<bucket, coll, defers, storeFailed, calls, restVars>>

\* ------------------------------------------------------------- ordering
\* sha256.Sum256, with a digest of DigestSize bytes: byte j of the digest
\* folds the message with its own multiplier and start value
Mix(h, byte, j) == (h * (31 + 2 * j) + byte + j) % 256

RECURSIVE Fold(_, _, _)
Fold(h, msg, j) ==
    IF msg = <<>> THEN h ELSE Fold(Mix(h, Head(msg), j), Tail(msg), j)

Sum256(msg) == [j \in 1..DigestSize |-> Fold(17 * j, msg, j)]

RECURSIVE XorByte(_, _)
XorByte(a, b) ==
    IF a = 0 /\ b = 0 THEN 0
    ELSE (((a % 2) + (b % 2)) % 2) + 2 * XorByte(a \div 2, b \div 2)

\* network.Marshal: one tagged, length-prefixed field after the other
Marshal(t) ==
    <<8, 2 * t.Action>>
        \o <<18, Len(t.Key)>> \o t.Key
        \o <<26, Len(t.Kind)>> \o t.Kind
        \o <<34, Len(t.Value)>> \o t.Value

\* network.Unmarshal: reads the fields back
Unmarshal(b) ==
    LET keyAt == 4
        keyLen == b[keyAt]
        kindAt == keyAt + keyLen + 2
        kindLen == b[kindAt]
        valueAt == kindAt + kindLen + 2
        valueLen == b[valueAt]
    IN  [Action |-> b[2] \div 2,
         Key |-> SubSeq(b, keyAt + 1, keyAt + keyLen),
         Kind |-> SubSeq(b, kindAt + 1, kindAt + kindLen),
         Value |-> SubSeq(b, valueAt + 1, valueAt + valueLen)]

RECURSIVE XorAll(_, _)
\* result = hs instead of result[i] ^ hs[i]
XorAllOverwrite(result, bs) ==
    IF bs = <<>> THEN result ELSE Sum256(bs[Len(bs)])
XorAll(result, bs) ==
    IF bs = <<>> THEN result
    ELSE LET hs == Sum256(Head(bs))
         IN  XorAll([i \in 1..DigestSize |-> XorByte(result[i], hs[i])], Tail(bs))

SaltOfFirst(bs) == IF bs = <<>> THEN [i \in 1..DigestSize |-> 0] ELSE Sum256(Head(bs))
xorTransactions(bs) == XorAll([i \in 1..DigestSize |-> 0], bs)

\* the salted hash that the less function of sortWithSalt compares
RECURSIVE SaltedHashes(_, _)
SaltedHashes(bs, salt) ==
    IF bs = <<>> THEN <<>>
    ELSE <<Sum256(salt \o Head(bs))>> \o SaltedHashes(Tail(bs), salt)

Permutations1(n) == {p \in [1..n -> 1..n] : \A i, j \in 1..n : p[i] = p[j] => i = j}

\* the slice is left as it is
sortWithSaltNoSort(bs, salt) == {bs}
\* sort.Slice is not stable: it leaves any arrangement of the elements in
\* which no element is less than one before it
sortWithSalt(bs, salt) ==
    UNION {{[i \in 1..Len(bs) |-> bs[p[i]]] : p \in
               {q \in Permutations1(Len(bs)) :
                   \A i, j \in 1..Len(bs) :
                       i < j => BytesCompare(h[q[j]], h[q[i]]) # -1}} :
             h \in {SaltedHashes(bs, salt)}}

\* what the caller's slice holds when sortTransactions returns: it is
\* written only by the last loop, after every element was unmarshalled
SortCopyBackEarly(tsIn, sortedTs, failU) ==
    [i \in 1..Len(tsIn) |-> IF failU = 0 \/ i < failU THEN sortedTs[i] ELSE tsIn[i]]
SortCopyBack(tsIn, sortedTs, failU) ==
    IF failU = 0 THEN sortedTs ELSE tsIn

ErrMarshal == "marshal failed"
ErrUnmarshal == "unmarshal failed"
Pending == "pending"

\* every outcome of sortTransactions on tsIn: Marshal fails on an element,
\* Unmarshal fails on element failU, or neither fails (failU = 0)
sortTransactionsResults(tsIn) ==
    LET bs == [i \in 1..Len(tsIn) |-> Marshal(tsIn[i])]
        salt == xorTransactions(bs)
    IN  {[ts |-> tsIn, err |-> ErrMarshal, salt |-> Nil] : i \in 1..Len(tsIn)}
        \cup
        {[ts |-> SortCopyBack(tsIn,
                    [i \in 1..Len(sorted) |-> Unmarshal(sorted[i])], failU),
          err |-> IF failU # 0 THEN ErrUnmarshal ELSE NoErr,
          salt |-> salt] :
             sorted \in sortWithSalt(bs, salt), failU \in 0..Len(tsIn)}

\* transactions of one key and kind, with two actions and every value
SortTransaction ==
    {t \in Transaction : t.Key = KeyX /\ t.Kind = <<97>> /\ t.Action # Update}
SortBatches == UNION {[1..n -> SortTransaction] : n \in 0..MaxSort}

SortIdle ==
    /\ sortIn = <<<<>>, <<>>>>
    /\ sortTs = <<<<>>, <<>>>>
    /\ sortErr = <<Pending, Pending>>
    /\ sortSalt = <<Nil, Nil>>

\* the second run gets a permutation of the batch of the first
SortInit ==
    /\ \E b \in SortBatches : \E p \in Permutations1(Len(b)) :
          sortIn = <<b, [i \in 1..Len(b) |-> b[p[i]]]>>
    /\ sortTs = sortIn
    /\ sortErr = <<Pending, Pending>>
    /\ sortSalt = <<Nil, Nil>>

SortTransactions(r) ==
    /\ sortErr[r] = Pending
    /\ \E res \in sortTransactionsResults(sortTs[r]) :
          /\ sortTs' = [sortTs EXCEPT ![r] = res.ts]
          /\ sortErr' = [sortErr EXCEPT ![r] = res.err]
          /\ sortSalt' = [sortSalt EXCEPT ![r] = res.salt]
    /\ UNCHANGED <<sortIn, storeVars, regVars, getVars>>

\* ------------------------------------------------------ verifier registry
ErrNoService == "Didn't find our service"
ErrAlreadyRegistered == "already registered"
NoVerifier == "none"
RegKinds == {"darc", "eventlog", "config"}
Verifiers == {"f1", "f2"}

\* Service.registerVerification: one verifier per kind
registerVerification(vs, kind, f) ==
    IF kind \in DOMAIN vs
    THEN [verifiers |-> vs, err |-> ErrAlreadyRegistered]
    ELSE [verifiers |-> [k \in (DOMAIN vs) \cup {kind} |->
                            IF k = kind THEN f ELSE vs[k]],
          err |-> NoErr]

\* found: s.Service(ServiceName) is not nil
RegisterVerificationUnchecked(found, vs, kind, f) ==
    registerVerification(vs, kind, f)
RegisterVerificationResult(found, vs, kind, f) ==
    IF ~found
    THEN [verifiers |-> vs, err |-> ErrNoService]
    ELSE registerVerification(vs, kind, f)

NoRegistration == [kind |-> "", f |-> NoVerifier, found |-> FALSE, err |-> NoErr]

RegIdle ==
    /\ verifiers = [k \in {} |-> NoVerifier]
    /\ regLast = NoRegistration

RegisterVerification(found, kind, f) ==
    /\ LET r == RegisterVerificationResult(found, verifiers, kind, f)
       IN  /\ verifiers' = r.verifiers
           /\ regLast' = [kind |-> kind, f |-> f, found |-> found, err |-> r.err]
    /\ UNCHANGED <<storeVars, sortVars, getVars>>

\* ------------------------------------------------- GetValueKind on a proof
ProofValue == Values \cup {Nil, NotBytes}
Proofs ==
    {[values |-> <<>>, err |-> ErrNoMatch]}
        \cup {[values |-> v, err |-> NoErr] :
                 v \in UNION {[1..n -> ProofValue] : n \in 0..MaxProofLen}}

NoProof == [values |-> <<>>, err |-> NoErr]
NoRet == [value |-> Nil, kind |-> Nil, err |-> Pending]

GetIdle ==
    /\ getProof = NoProof
    /\ getRet = NoRet

GetInit ==
    /\ getProof \in Proofs
    /\ getRet = NoRet

GetValueKindOnProof ==
    /\ getRet = NoRet
    /\ getRet' = GetValueKindOf(getProof)
    /\ UNCHANGED <<getProof, storeVars, sortVars, regVars>>

\* ----------------------------------------------------------- specification
vars == <<storeVars, sortVars, regVars, getVars>>

StoreInit ==
    /\ bucket = BucketNew
    /\ coll = loadAll(CollectionNew, BucketNew)
    /\ pc = "idle"
    /\ todo = 0
    /\ defers = <<>>
    /\ mr = NilRoot
    /\ rerr = NoErr
    /\ collAtCall = CollectionNew
    /\ added = <<>>
    /\ stored = CollectionNew
    /\ undone = <<>>
    /\ storeFailed = FALSE
    /\ last = NoCall
    /\ calls = 0

Init == StoreInit /\ SortIdle /\ RegIdle /\ GetIdle

TryHashStep ==
    \/ \E t \in BatchTransaction : TryHashAdd(t)
    \/ TryHashGetRoot
    \/ TryHashRunDeferred
    \/ TryHashReturn

\* one goroutine: a call starts only when tryHash is not running
Next ==
    \/ pc = "idle" /\ NewCollectionDB
    \/ pc = "idle" /\ \E t \in Transaction : Store(t)
    \/ pc = "idle" /\ \E k \in AllKeys : CallGetValueKind(k)
    \/ pc = "idle" /\ CallRootHash
    \/ \E n \in 0..MaxBatch : TryHashCall(n)
    \/ TryHashStep

Spec == Init /\ [][Next]_vars

\* several goroutines: collectionDB holds no lock, so Store, GetValueKind
\* and RootHash of other goroutines run between the steps of tryHash
NextConc ==
    \/ NewCollectionDB
    \/ \E t \in Transaction : Store(t)
    \/ \E k \in AllKeys : CallGetValueKind(k)
    \/ CallRootHash
    \/ \E n \in 0..MaxBatch : TryHashCall(n)
    \/ TryHashStep

SpecConc == Init /\ [][NextConc]_vars

\* sortTransactions run on a batch and on a permutation of it
InitSort == StoreInit /\ SortInit /\ RegIdle /\ GetIdle

NextSort == \E r \in 1..2 : SortTransactions(r)

SpecSort == InitSort /\ [][NextSort]_vars

\* calls of tryHash when c.coll.Remove may return an error; a removal that
\* failed leaves its key for the calls that follow
NextFault ==
    \/ \E n \in 0..MaxBatch : TryHashCall(n)
    \/ TryHashStep
    \/ RunDeferred(TRUE)

SpecFault == Init /\ [][NextFault]_vars

\* registrations of verifiers with the service
NextReg ==
    \E found \in BOOLEAN, kind \in RegKinds, f \in Verifiers :
        RegisterVerification(found, kind, f)

SpecReg == Init /\ [][NextReg]_vars

\* GetValueKind on every shape of proof
InitGet == StoreInit /\ SortIdle /\ RegIdle /\ GetInit

NextGet == GetValueKindOnProof

SpecGet == InitGet /\ [][NextGet]_vars

\* ------------------------------------------------------------ properties
Range(f) == {f[i] : i \in DOMAIN f}
Returning == pc = "return" /\ defers = <<>>
StoredEntry(t) == [value |-> t.Value, kind |-> t.Kind, err |-> NoErr]
\* the step is a call of Store that follows a call of Store
StoreAfterStore == last.op = "Store" /\ last'.op = "Store" /\ calls' = calls + 1

\* C1: when tryHash returns, with a digest or with an error, the collection
\* holds exactly the entries, and has the root hash, it had at the call.
C1_SpeculativeIsolation ==
    Returning => /\ coll = collAtCall
                 /\ RootHash(coll) = RootHash(collAtCall)

C1_Witness ==
    /\ Returning
    /\ rerr = ErrKeyCollision
    /\ added # <<>>
    /\ DOMAIN collAtCall # {}

\* C2: a store opened afresh on the bucket has the root hash the store had
\* after its last Store, when every Store returned no error.
C2_RehydrationRoundTrip ==
    [][(last'.op = "newCollectionDB" /\ calls' = calls + 1 /\ ~storeFailed)
          => RootHash(coll') = RootHash(coll)]_vars

\* C3: GetValueKind of an absent key returns an error, and after Store of a
\* transaction GetValueKind of its key returns exactly its value and kind.
C3_LookupAfterStore ==
    /\ \A k \in AllKeys \ DOMAIN coll : GetValueKind(coll, k).err = ErrNoMatch
    /\ (last.op = "Store" /\ pc = "idle")
          => GetValueKind(coll, last.tx.Key) = StoredEntry(last.tx)

\* C4: a second Store (Create or Update) of the same kind and key with another
\* value overwrites the first: GetValueKind returns the second value and the
\* root hash changes.
C4_StoreIsUpsert ==
    [][(/\ StoreAfterStore
        /\ last.tx.Action \in {Create, Update}
        /\ last'.tx.Action \in {Create, Update}
        /\ last'.tx.Key = last.tx.Key
        /\ last'.tx.Kind = last.tx.Kind
        /\ last'.tx.Value # last.tx.Value)
          => /\ GetValueKind(coll', last'.tx.Key) = StoredEntry(last'.tx)
             /\ RootHash(coll') # RootHash(coll)]_vars

\* C7: when an Add fails part-way through the batch, tryHash returns the nil
\* digest with the error of that Add, and no key added earlier in the call is
\* left in the collection.
C7_TryHashAddFails ==
    (pc = "return" /\ todo > 0)
       => /\ mr = NilRoot
          /\ rerr = ErrKeyCollision
          /\ defers = <<>> => \A i \in DOMAIN added : added[i] \notin DOMAIN coll

C7_Witness ==
    /\ Returning
    /\ todo > 0
    /\ added # <<>>

\* C8: no GetValueKind returns an entry, and no RootHash a digest, that is there
\* only because tryHash is between its insertions and its removals, and no
\* Store runs at such a moment.
C8_NoPartialObservation ==
    /\ (last.op = "GetValueKind" /\ last.err = NoErr)
          => last.key \notin Range(last.during)
    /\ last.op = "RootHash" => last.during = <<>>
    /\ last.op = "Store" => last.during = <<>>

\* C9: after two Stores of the same user key with different kinds the
\* collection holds two entries, one with each value and kind.
C9_KindNamespacing ==
    [][(/\ StoreAfterStore
        /\ last'.tx.Key = last.tx.Key
        /\ last'.tx.Kind # last.tx.Kind)
          => \E e1, e2 \in DOMAIN coll' :
                /\ e1 # e2
                /\ coll'[e1] = <<last.tx.Value, last.tx.Kind>>
                /\ coll'[e2] = <<last'.tx.Value, last'.tx.Kind>>]_vars

\* C10: after Store of a Create or Update the entry of the key is the
\* transaction's value and kind; after Store of a Remove the key is not found.
C10_ActionSemantics ==
    (last.op = "Store" /\ pc = "idle")
       => IF last.tx.Action = Remove
          THEN GetValueKind(coll, last.tx.Key).err = ErrNoMatch
          ELSE GetValueKind(coll, last.tx.Key) = StoredEntry(last.tx)

\* C11: when tryHash succeeds, its digest is the root hash that a store in the
\* state of the call has after Store of every transaction of the batch.
C11_SpeculativeDigestIsReal ==
    (Returning /\ rerr = NoErr) => mr = RootHash(stored)

C11_Witness ==
    /\ Returning
    /\ rerr = NoErr
    /\ Len(added) = 2
    /\ mr # RootHash(collAtCall)
    /\ RootHash(coll) = RootHash(collAtCall)

LockStep(c, b) ==
    /\ \A k \in DOMAIN c :
          /\ k \in DOMAIN b
          /\ KeyKind(k) \in DOMAIN b
          /\ c[k] = <<b[k], b[KeyKind(k)]>>
    /\ \A k \in UserKeys :
          (k \in DOMAIN b /\ KeyKind(k) \in DOMAIN b) => k \in DOMAIN c

\* C13: a Store that returns no error, on a collection and a bucket that are in
\* lock-step, leaves them in lock-step.
C13_LockStep ==
    [][(last'.op = "Store" /\ calls' = calls + 1 /\ last'.err = NoErr
            /\ LockStep(coll, bucket))
          => LockStep(coll', bucket')]_vars

\* the keys of the bucket that have a value record and a kind record
LogicalKeys(b) == {k \in DOMAIN b : KeyKind(k) \in DOMAIN b}

\* C14: a store opened on a bucket holds one entry for each key that has a
\* value record and a kind record, with that value and kind, and no other.
C14_RehydratedContents ==
    (last.op = "newCollectionDB" /\ pc = "idle") =>
        coll = [k \in LogicalKeys(bucket) |-> <<bucket[k], bucket[KeyKind(k)]>>]

\* C15: a Store of one key, after a Store of another key, leaves the value
\* record and the kind record of the other key as they were.
C15_SubKeysDistinct ==
    [][(StoreAfterStore /\ last.err = NoErr /\ last'.err = NoErr
            /\ last.key # last'.key
            /\ bucket[last.key] = last.tx.Value
            /\ bucket[KeyKind(last.key)] = last.tx.Kind)
          => /\ bucket'[last.key] = last.tx.Value
             /\ bucket'[KeyKind(last.key)] = last.tx.Kind]_vars

\* C16: a Store whose bucket write fails returns the error, writes nothing,
\* and leaves the collection with the entry of the transaction, so the root
\* hash is the one of a collection holding it.
C16_FailedWriteKeepsEntry ==
    [][(last'.op = "Store" /\ calls' = calls + 1 /\ last'.err # NoErr)
          => /\ last'.err = ErrBucketWrite
             /\ bucket' = bucket
             /\ GetValueKind(coll', last'.key) = StoredEntry(last'.tx)
             /\ RootHash(coll') =
                    RootHash([k \in (DOMAIN coll) \cup {last'.key} |->
                                IF k = last'.key
                                THEN <<last'.tx.Value, last'.tx.Kind>>
                                ELSE coll[k]])]_vars

\* C19: GetValueKind on a proof with fewer than two values, or with a first or
\* second value that is not a byte sequence, returns an error.
C19_MalformedEntry ==
    (/\ getRet # NoRet
     /\ getProof.err = NoErr
     /\ \/ Len(getProof.values) < 2
        \/ \E i \in 1..2 : ~IsBytes(getProof.values[i]))
        => getRet.err \notin {NoErr, ErrPanic}

\* C20: while tryHash runs there is one pending removal per key it added; the
\* removals run last added first, all of them on every way out, and when one
\* of them fails tryHash returns the nil digest and an error.
C20_UndoRunsToCompletion ==
    /\ pc = "loop" => (defers = added /\ undone = <<>>)
    /\ pc = "return" =>
          /\ defers = SubSeq(added, 1, Len(added) - Len(undone))
          /\ \A i \in 1..Len(undone) : undone[i].key = added[Len(added) + 1 - i]
    /\ Returning =>
          /\ Len(undone) = Len(added)
          /\ (\E i \in 1..Len(undone) : undone[i].err # NoErr)
                => (mr = NilRoot /\ rerr # NoErr)

C20_Witness ==
    /\ Returning
    /\ Len(added) = 2
    /\ undone[1].err # NoErr
    /\ undone[2].err = NoErr
    /\ undone[2].key = added[1]
    /\ mr = NilRoot

\* C5: sortTransactions of a batch and of any permutation of it leave the same
\* sequence, and two runs on the same batch leave the same sequence.
C5_OrderIndependent ==
    (sortErr[1] = NoErr /\ sortErr[2] = NoErr) => sortTs[1] = sortTs[2]

C5_Witness ==
    /\ sortErr = <<NoErr, NoErr>>
    /\ Len(sortIn[1]) = 3
    /\ sortIn[1] # sortIn[2]
    /\ sortTs[1] # sortIn[1]
    /\ sortTs[2] # sortIn[2]

\* C6: when Marshal or Unmarshal fails on an element, sortTransactions returns
\* an error and the caller's slice is as it was passed in.
C6_FailureLeavesInput ==
    \A r \in 1..2 :
        sortErr[r] \in {ErrMarshal, ErrUnmarshal} => sortTs[r] = sortIn[r]

C6_Witness ==
    /\ sortErr[1] = ErrUnmarshal
    /\ sortErr[2] = NoErr
    /\ sortTs[2] # sortIn[1]
    /\ Len(sortIn[1]) >= 2

\* salt is the XOR of the digests hs: each bit of salt is set exactly when
\* it is set in an odd number of them
IsXorOf(salt, hs) ==
    \A i \in 1..DigestSize : \A p \in {1, 2, 4, 8, 16, 32, 64, 128} :
        (salt[i] \div p) % 2
            = Cardinality({k \in DOMAIN hs : (hs[k][i] \div p) % 2 = 1}) % 2

\* C17: when sortTransactions succeeds, the slice holds each transaction of
\* the input as often as the input does, the salted hashes of its elements
\* never decrease, and the salt is the XOR of the hashes of all elements.
\* The first run gets every batch, so the formula speaks of the first run.
C17_SortedResult ==
    sortErr[1] = NoErr =>
        /\ Len(sortTs[1]) = Len(sortIn[1])
        /\ \A t \in Range(sortIn[1]) \cup Range(sortTs[1]) :
              Cardinality({i \in DOMAIN sortTs[1] : sortTs[1][i] = t})
                  = Cardinality({i \in DOMAIN sortIn[1] : sortIn[1][i] = t})
        /\ \A hs \in {[k \in DOMAIN sortIn[1] |-> Sum256(Marshal(sortIn[1][k]))]} :
              IsXorOf(sortSalt[1], hs)
        /\ \A h \in {SaltedHashes([i \in DOMAIN sortTs[1] |->
                                       Marshal(sortTs[1][i])], sortSalt[1])} :
              \A i \in 1..(Len(h) - 1) : BytesCompare(h[i], h[i + 1]) # 1

C17_Witness ==
    /\ sortErr[1] = NoErr
    /\ Len(sortIn[1]) = 3
    /\ Cardinality(Range(sortIn[1])) = 3
    /\ sortTs[1][1] = sortIn[1][3]

\* C18: the salt of a batch and of a permutation of it are the same; an empty
\* batch has the all-zero salt and stays empty; a batch of one transaction
\* has the hash of that transaction as salt and stays as it is.
C18_SaltProperties ==
    /\ (sortSalt[1] # Nil /\ sortSalt[2] # Nil) => sortSalt[1] = sortSalt[2]
    /\ \A r \in 1..2 :
          sortErr[r] = NoErr =>
              /\ Len(sortIn[r]) = 0 =>
                    /\ sortSalt[r] = [i \in 1..DigestSize |-> 0]
                    /\ sortTs[r] = <<>>
              /\ Len(sortIn[r]) = 1 =>
                    /\ sortSalt[r] = Sum256(Marshal(sortIn[r][1]))
                    /\ sortTs[r] = sortIn[r]

C18_Witness ==
    /\ sortErr = <<NoErr, NoErr>>
    /\ Len(sortIn[1]) = 2
    /\ sortIn[1] # sortIn[2]
    /\ sortSalt[1] = sortSalt[2]
    /\ sortSalt[1] # [i \in 1..DigestSize |-> 0]

\* distinct transactions of a batch never have the same salted hash
SortNoTies ==
    \A r \in 1..2 : \A i, j \in 1..Len(sortIn[r]) :
        LET bs == [k \in 1..Len(sortIn[r]) |-> Marshal(sortIn[r][k])]
            h == SaltedHashes(bs, xorTransactions(bs))
        IN  sortIn[r][i] # sortIn[r][j] => h[i] # h[j]

====
